---- MODULE Spec2Model ----
(***************************************************************************)
(* Model of video/frame_cadence_adapter.cc: FrameCadenceAdapterImpl with   *)
(* its two modes, PassthroughAdapterMode and ZeroHertzAdapterMode, the     *)
(* task queue the adapter runs on and the thread frames arrive on.         *)
(*                                                                         *)
(* absl::optional<T> is a sequence of length <= 1: << >> is nullopt and    *)
(* <<v>> holds v.  The clock is in milliseconds; a TimeDelta is kept in    *)
(* microseconds.  The task queue runs a delayed task at its deadline: the  *)
(* clock does not pass the deadline of a pending delayed task.  Immediate  *)
(* tasks run after an arbitrary latency.                                   *)
(***************************************************************************)
EXTENDS Integers, Sequences, FiniteSets, TLC

\* ------------------------------------------------------------------ bounds
MaxFrames == 1
MaxBurst == 2
MaxConfigOps == 2
MaxConfigurations == 3
MaxLayerOps == 1
MaxLayerCalls == 3
MaxTicks == 1
MaxRateUpdates == 2
MaxReinitializations == 1
MaxTime == 1400
TickStep == 10

\* --------------------------------------------------------- program constants
kZeroHertzIdleRepeatRatePeriodUs == 1000000
kFrameRateAveragingWindowSizeMs == 1000

\* A double frame rate is kept as a whole number of 1/FpsUnit frames per
\* second: 6 is 3 fps, 13 is 6.5 fps.
FpsUnit == 2

\* ------------------------------------------------------------- input domains
\* max_fps / min_fps of VideoTrackSourceConstraints (absl::optional<double>):
\* 3 fps, 6.5 fps and 0 for max_fps, 0 and 5 fps for min_fps.
ConstraintValues ==
  { [min_fps |-> <<0>>, max_fps |-> <<6>>],
    [min_fps |-> <<0>>, max_fps |-> <<13>>],
    [min_fps |-> <<10>>, max_fps |-> <<13>>],
    [min_fps |-> <<0>>, max_fps |-> <<0>>],
    [min_fps |-> << >>, max_fps |-> <<13>>],
    [min_fps |-> <<0>>, max_fps |-> << >>] }
LayerCounts == {1, 2}
\* Spatial indexes a caller may pass: those of two layers, one below and one above.
SpatialIndexes == -1 .. 2
\* Constraints that permit zero-hertz mode and constraints that forbid it.
SwitchingConstraints ==
  { [min_fps |-> <<0>>, max_fps |-> <<13>>],
    [min_fps |-> <<10>>, max_fps |-> <<13>>] }
\* Constraints that permit zero-hertz mode at 3 fps or at 6.5 fps, and
\* constraints that forbid it.
RateConstraints ==
  SwitchingConstraints \cup { [min_fps |-> <<0>>, max_fps |-> <<6>>] }
ParamValues == {<< >>} \cup {<<[num_simulcast_layers |-> n]>> : n \in LayerCounts}
\* What a source frame carries: timestamp_us, ntp_time_ms and update rectangle.
\* A frame in the model also has an id, its number in submission order, and
\* `source`, a copy of what the source put in it, which nothing modifies.
FrameKinds ==
  { [timestamp_us |-> 1000, ntp_time_ms |-> 500, update_rect |-> "full"],
    [timestamp_us |-> 0, ntp_time_ms |-> -7, update_rect |-> "partial"],
    [timestamp_us |-> -7, ntp_time_ms |-> 0, update_rect |-> "empty"] }

VARIABLES
  zero_hertz_screenshare_enabled,  \* field trial, read once at construction
  current_adapter_mode,            \* "null", "passthrough" or "zero_hertz"
  passthrough_adapter,             \* optional PassthroughAdapterMode
  zero_hertz_adapter,              \* optional ZeroHertzAdapterMode
  zero_hertz_params,               \* optional ZeroHertzModeParams
  source_constraints,              \* optional VideoTrackSourceConstraints
  has_reported_screenshare_frame_rate_umas,
  frames_scheduled_for_processing, \* std::atomic<int>
  queue,                           \* TaskQueue: immediate tasks, FIFO
  delayed,                         \* TaskQueue: delayed tasks, in post order
  now,                             \* Clock, ms
  incoming,                        \* the frame thread inside OnFrame: optional [post_time, frame]
  callback,                        \* what the Callback has observed
  history                          \* bookkeeping of the run (not program state)

vars == << zero_hertz_screenshare_enabled, current_adapter_mode, passthrough_adapter,
           zero_hertz_adapter, zero_hertz_params, source_constraints,
           has_reported_screenshare_frame_rate_umas, frames_scheduled_for_processing,
           queue, delayed, now, incoming, callback, history >>

\* ------------------------------------------------------------------ helpers
HasValue(o) == Len(o) = 1
Value(o) == o[1]
ValueOr(o, d) == IF HasValue(o) THEN o[1] ELSE d
Tail2(s) == SubSeq(s, 2, Len(s))

\* TimeDelta::ms(): microseconds to milliseconds, rounded to nearest.
Ms(us) == (us + 500) \div 1000
\* TimeDelta::Seconds(1) / max_fps, rounded to a whole microsecond.
FrameDelayUs(max_fps) == (2 * FpsUnit * 1000000 + max_fps) \div (2 * max_fps)

\* ------------------------------------------------------- ZeroHertzAdapterMode
\* Constructor: frame_delay_ = 1 s / max_fps_, one tracker per layer, all unset.
ZeroHertzAdapterMode(max_fps, params, safety) ==
  [ max_fps |-> max_fps,
    frame_delay |-> FrameDelayUs(max_fps),
    queued_frames |-> << >>,
    current_frame_id |-> 0,
    is_repeating |-> FALSE,
    layer_trackers |-> [i \in 1..params.num_simulcast_layers |-> << >>],
    safety |-> safety ]

\* The mode as constructed, whatever its max_fps and layer count.
FreshMode(zh) ==
  /\ zh.queued_frames = << >>
  /\ zh.current_frame_id = 0
  /\ zh.is_repeating = FALSE
  /\ \A i \in DOMAIN zh.layer_trackers : zh.layer_trackers[i] = << >>

\* A delayed task as posted with ToQueuedTask(safety_, ...): the closure's
\* captures, the safety flag and the time it is due.
DelayedTask(kind, delay_us, frame_id, safety) ==
  [ kind |-> kind, deadline |-> now + Ms(delay_us), frame_id |-> frame_id,
    scheduled_delay |-> delay_us, safety |-> safety ]

\* An update that can only raise the convergence bit.
ZhUpdateLayerQualityConvergenceSticky(zh, spatial_index, quality_converged) ==
  IF HasValue(zh.layer_trackers[spatial_index + 1])
    THEN [zh EXCEPT !.layer_trackers[spatial_index + 1] =
                       << Value(@) \/ quality_converged >>]
    ELSE zh

\* The layer a spatial index names (spatial_index counts from 0).
ZhUpdateLayerQualityConvergence(zh, spatial_index, quality_converged) ==
  IF HasValue(zh.layer_trackers[spatial_index + 1])
    THEN [zh EXCEPT !.layer_trackers[spatial_index + 1] = <<quality_converged>>]
    ELSE zh

\* An enabling that also restarts a layer already enabled.
ZhUpdateLayerStatusRestarts(zh, spatial_index, enabled) ==
  IF enabled
    THEN [zh EXCEPT !.layer_trackers[spatial_index + 1] = <<FALSE>>]
    ELSE [zh EXCEPT !.layer_trackers[spatial_index + 1] = << >>]

ZhUpdateLayerStatus(zh, spatial_index, enabled) ==
  IF enabled
    THEN IF ~HasValue(zh.layer_trackers[spatial_index + 1])
           THEN [zh EXCEPT !.layer_trackers[spatial_index + 1] = <<FALSE>>]
           ELSE zh
    ELSE [zh EXCEPT !.layer_trackers[spatial_index + 1] = << >>]

\* A frame entry that keeps what the layers reported.
ResetTrackersKeepsReports(trackers) == trackers

\* "Assume all enabled layers are unconverged after frame entry."
ResetTrackers(trackers) ==
  [i \in DOMAIN trackers |-> IF HasValue(trackers[i]) THEN <<FALSE>> ELSE << >>]

\* An OnFrame that does not start a new frame generation.
ZhOnFrameSameGeneration(zh, frame) ==
  LET kept == IF zh.is_repeating THEN Tail2(zh.queued_frames) ELSE zh.queued_frames
  IN [ zh |-> [zh EXCEPT !.layer_trackers = ResetTrackers(zh.layer_trackers),
                         !.queued_frames = Append(kept, frame),
                         !.is_repeating = FALSE],
       posts |-> << DelayedTask("process", zh.frame_delay, 0, zh.safety) >>,
       cbs |-> << >>,
       dcheck_ok |-> (zh.is_repeating => Len(zh.queued_frames) = 1) ]

\* An OnFrame that keeps the frame that was repeating in the queue.
ZhOnFrameKeepsRepeated(zh, frame) ==
  [ zh |-> [zh EXCEPT !.layer_trackers = ResetTrackers(zh.layer_trackers),
                      !.queued_frames = Append(zh.queued_frames, frame),
                      !.current_frame_id = zh.current_frame_id + 1,
                      !.is_repeating = FALSE],
    posts |-> << DelayedTask("process", zh.frame_delay, 0, zh.safety) >>,
    cbs |-> << >>,
    dcheck_ok |-> (zh.is_repeating => Len(zh.queued_frames) = 1) ]

\* ZeroHertzAdapterMode::OnFrame: the mode after the call, the delayed task it
\* posts, and whether RTC_DCHECK(queued_frames_.size() == 1) held.
ZhOnFrame(zh, frame) ==
  LET kept == IF zh.is_repeating THEN Tail2(zh.queued_frames) ELSE zh.queued_frames
  IN [ zh |-> [zh EXCEPT !.layer_trackers = ResetTrackers(zh.layer_trackers),
                         !.queued_frames = Append(kept, frame),
                         !.current_frame_id = zh.current_frame_id + 1,
                         !.is_repeating = FALSE],
       posts |-> << DelayedTask("process", zh.frame_delay, 0, zh.safety) >>,
       cbs |-> << >>,
       dcheck_ok |-> (zh.is_repeating => Len(zh.queued_frames) = 1) ]

\* A rate rounded to the nearest whole number.
ZhGetInputFrameRateFpsRounded(zh) == << (2 * zh.max_fps + FpsUnit) \div (2 * FpsUnit) >>

\* GetInputFrameRateFps: max_fps_, a double, converted to uint32_t, which drops
\* the fraction.
ZhGetInputFrameRateFps(zh) == << zh.max_fps \div FpsUnit >>
\* ZeroHertzAdapterMode::UpdateFrameRate does nothing.
ZhUpdateFrameRate(zh) == zh

\* SendFrameNow: the arguments of callback_->OnFrame.
SendFrameNow(frame) ==
  [ post_time |-> now, frames_scheduled_for_processing |-> 1, frame |-> frame ]

\* Convergence that a disabled layer vetoes.
QualityConvergedAllLayers(trackers) ==
  \A i \in DOMAIN trackers : HasValue(trackers[i]) /\ Value(trackers[i])

\* absl::c_all_of over the trackers: unset or converged.
QualityConverged(trackers) ==
  \A i \in DOMAIN trackers : ~HasValue(trackers[i]) \/ Value(trackers[i])

\* A delay that is idle only when no layer is enabled.
RepeatDelayIdleWhenAllDisabled(zh) ==
  IF \A i \in DOMAIN zh.layer_trackers : ~HasValue(zh.layer_trackers[i])
    THEN kZeroHertzIdleRepeatRatePeriodUs
    ELSE zh.frame_delay

RepeatDelay(zh) ==
  IF QualityConverged(zh.layer_trackers) THEN kZeroHertzIdleRepeatRatePeriodUs
                                         ELSE zh.frame_delay

ScheduleRepeat(zh, frame_id) ==
  DelayedTask("repeat", RepeatDelay(zh), frame_id, zh.safety)

\* ProcessOnDelayedCadence that leaves the sent frame at the front.
ProcessOnDelayedCadenceNoPop(zh) ==
  IF zh.queued_frames = << >>
    THEN [zh |-> zh, posts |-> << >>, cbs |-> << >>, dcheck_ok |-> FALSE]
    ELSE IF Len(zh.queued_frames) > 1
      THEN [ zh |-> zh, posts |-> << >>,
             cbs |-> << SendFrameNow(Head(zh.queued_frames)) >>, dcheck_ok |-> TRUE ]
      ELSE [ zh |-> [zh EXCEPT !.is_repeating = TRUE],
             posts |-> << ScheduleRepeat(zh, zh.current_frame_id) >>,
             cbs |-> << SendFrameNow(Head(zh.queued_frames)) >>,
             dcheck_ok |-> TRUE ]

\* ProcessOnDelayedCadence that takes the newest frame of a burst first.
ProcessOnDelayedCadenceNewestFirst(zh) ==
  IF zh.queued_frames = << >>
    THEN [zh |-> zh, posts |-> << >>, cbs |-> << >>, dcheck_ok |-> FALSE]
    ELSE IF Len(zh.queued_frames) > 1
      THEN [ zh |-> [zh EXCEPT !.queued_frames =
                                  SubSeq(zh.queued_frames, 1, Len(zh.queued_frames) - 1)],
             posts |-> << >>,
             cbs |-> << SendFrameNow(zh.queued_frames[Len(zh.queued_frames)]) >>,
             dcheck_ok |-> TRUE ]
      ELSE [ zh |-> [zh EXCEPT !.is_repeating = TRUE],
             posts |-> << ScheduleRepeat(zh, zh.current_frame_id) >>,
             cbs |-> << SendFrameNow(Head(zh.queued_frames)) >>,
             dcheck_ok |-> TRUE ]

\* ProcessOnDelayedCadence.  With the queue empty the RTC_DCHECK fails and
\* nothing else is modelled of the call.
ProcessOnDelayedCadence(zh) ==
  IF zh.queued_frames = << >>
    THEN [zh |-> zh, posts |-> << >>, cbs |-> << >>, dcheck_ok |-> FALSE]
    ELSE IF Len(zh.queued_frames) > 1
      THEN [ zh |-> [zh EXCEPT !.queued_frames = Tail2(zh.queued_frames)],
             posts |-> << >>,
             cbs |-> << SendFrameNow(Head(zh.queued_frames)) >>,
             dcheck_ok |-> TRUE ]
      ELSE [ zh |-> [zh EXCEPT !.is_repeating = TRUE],
             posts |-> << ScheduleRepeat(zh, zh.current_frame_id) >>,
             cbs |-> << SendFrameNow(Head(zh.queued_frames)) >>,
             dcheck_ok |-> TRUE ]

\* A repeat that is never cancelled.
RepeatCancelledNever(frame_id, current_frame_id) == FALSE

\* "Cancel this invocation if new frames turned up."
RepeatCancelled(frame_id, current_frame_id) == frame_id # current_frame_id

\* A repeat that keeps the frame's update rectangle.
RepeatedFrameKeepsRect(frame, scheduled_delay) ==
  [frame EXCEPT
     !.timestamp_us = IF frame.timestamp_us > 0
                        THEN frame.timestamp_us + scheduled_delay
                        ELSE frame.timestamp_us,
     !.ntp_time_ms = IF frame.ntp_time_ms # 0
                       THEN frame.ntp_time_ms + Ms(scheduled_delay)
                       ELSE frame.ntp_time_ms]

\* The repeated frame: empty update rectangle, timestamps moved by the delay.
RepeatedFrame(frame, scheduled_delay) ==
  [frame EXCEPT
     !.update_rect = "empty",
     !.timestamp_us = IF frame.timestamp_us > 0
                        THEN frame.timestamp_us + scheduled_delay
                        ELSE frame.timestamp_us,
     !.ntp_time_ms = IF frame.ntp_time_ms # 0
                       THEN frame.ntp_time_ms + Ms(scheduled_delay)
                       ELSE frame.ntp_time_ms]

\* A repeat that sends the frame and schedules nothing further.
ProcessRepeatedFrameOnDelayedCadenceOnce(zh, frame_id, scheduled_delay) ==
  IF zh.queued_frames = << >>
    THEN [zh |-> zh, posts |-> << >>, cbs |-> << >>, dcheck_ok |-> FALSE]
    ELSE IF RepeatCancelled(frame_id, zh.current_frame_id)
      THEN [zh |-> zh, posts |-> << >>, cbs |-> << >>, dcheck_ok |-> TRUE]
      ELSE LET frame == RepeatedFrame(Head(zh.queued_frames), scheduled_delay)
           IN [ zh |-> [zh EXCEPT !.queued_frames[1] = frame],
                posts |-> << >>,
                cbs |-> << SendFrameNow(frame) >>,
                dcheck_ok |-> TRUE ]

ProcessRepeatedFrameOnDelayedCadence(zh, frame_id, scheduled_delay) ==
  IF zh.queued_frames = << >>
    THEN [zh |-> zh, posts |-> << >>, cbs |-> << >>, dcheck_ok |-> FALSE]
    ELSE IF RepeatCancelled(frame_id, zh.current_frame_id)
      THEN [zh |-> zh, posts |-> << >>, cbs |-> << >>, dcheck_ok |-> TRUE]
      ELSE LET frame == RepeatedFrame(Head(zh.queued_frames), scheduled_delay)
           IN [ zh |-> [zh EXCEPT !.queued_frames[1] = frame],
                posts |-> << ScheduleRepeat(zh, frame_id) >>,
                cbs |-> << SendFrameNow(frame) >>,
                dcheck_ok |-> TRUE ]

\* ------------------------------------------------------------ RateStatistics
\* The windowed rate estimator of the passthrough mode: the samples in the
\* window, each a count of arrivals and the time they were recorded at.
RateStatistics == << >>
InWindow(window, now_ms) ==
  SelectSeq(window, LAMBDA x : now_ms - x.at < kFrameRateAveragingWindowSizeMs)
RECURSIVE Arrivals(_)
Arrivals(window) ==
  IF window = << >> THEN 0 ELSE Head(window).count + Arrivals(Tail(window))
\* Update(count, now_ms): record `count` arrivals at now_ms.
RateStatisticsUpdate(window, count, now_ms) ==
  Append(InWindow(window, now_ms), [count |-> count, at |-> now_ms])
\* Rate(now_ms): arrivals per second over the window; none with fewer than two
\* samples in the window.
RateStatisticsRate(window, now_ms) ==
  LET samples == InWindow(window, now_ms)
  IN IF Len(samples) < 2 THEN << >>
     ELSE << (Arrivals(samples) * 1000) \div kFrameRateAveragingWindowSizeMs >>

\* ---------------------------------------------------- PassthroughAdapterMode
PassthroughAdapterMode == [input_framerate |-> RateStatistics]
PassthroughGetInputFrameRateFps(pt) == RateStatisticsRate(pt.input_framerate, now)
PassthroughUpdateFrameRate(pt) ==
  [pt EXCEPT !.input_framerate = RateStatisticsUpdate(@, 1, now)]

\* A passthrough that stamps the frame when its task runs.
PassthroughOnFrameStampedLate(post_time, count, frame) ==
  [ post_time |-> now, frames_scheduled_for_processing |-> count, frame |-> frame ]

\* PassthroughAdapterMode::OnFrame: the arguments of callback_->OnFrame.
PassthroughOnFrame(post_time, count, frame) ==
  [ post_time |-> post_time, frames_scheduled_for_processing |-> count, frame |-> frame ]

\* --------------------------------------------------- FrameCadenceAdapterImpl
\* The activation test without the min_fps condition.
IsZeroHertzScreenshareEnabledAnyMin(field_trial, constraints, params) ==
  /\ field_trial
  /\ HasValue(constraints)
  /\ ValueOr(Value(constraints).max_fps, -FpsUnit) > 0
  /\ HasValue(params)

IsZeroHertzScreenshareEnabled(field_trial, constraints, params) ==
  /\ field_trial
  /\ HasValue(constraints)
  /\ ValueOr(Value(constraints).max_fps, -FpsUnit) > 0
  /\ ValueOr(Value(constraints).min_fps, -FpsUnit) = 0
  /\ HasValue(params)

\* A reconfiguration that constructs the zero-hertz mode anew whenever the
\* mode is on.
MaybeReconfigureAdaptersAnew(was_zero_hertz_enabled, constraints, params, adapter, safety) ==
  IF IsZeroHertzScreenshareEnabled(zero_hertz_screenshare_enabled, constraints, params)
    THEN [ zero_hertz_adapter |->
             << ZeroHertzAdapterMode(Value(Value(constraints).max_fps),
                                     Value(params), safety) >>,
           current_adapter_mode |-> "zero_hertz" ]
    ELSE [ zero_hertz_adapter |-> IF was_zero_hertz_enabled THEN << >> ELSE adapter,
           current_adapter_mode |-> "passthrough" ]

\* MaybeReconfigureAdapters, run with the constraints and params already
\* stored: the zero-hertz adapter and the current mode afterwards.  `safety`
\* is the flag a newly constructed mode gets.
MaybeReconfigureAdapters(was_zero_hertz_enabled, constraints, params, adapter, safety) ==
  IF IsZeroHertzScreenshareEnabled(zero_hertz_screenshare_enabled, constraints, params)
    THEN [ zero_hertz_adapter |->
             IF ~was_zero_hertz_enabled
               THEN << ZeroHertzAdapterMode(Value(Value(constraints).max_fps),
                                            Value(params), safety) >>
               ELSE adapter,
           current_adapter_mode |-> "zero_hertz" ]
    ELSE [ zero_hertz_adapter |-> IF was_zero_hertz_enabled THEN << >> ELSE adapter,
           current_adapter_mode |-> "passthrough" ]

\* A task that only checks that some zero-hertz mode exists.
SafetyAliveAnyMode(safety, adapter) == HasValue(adapter)

\* A task posted with a safety flag runs only while the flag's owner is alive:
\* the flag of a ZeroHertzAdapterMode dies with the mode.
SafetyAlive(safety, adapter) == HasValue(adapter) /\ Value(adapter).safety = safety

\* A counter read after the decrement.
FetchSubThenLoad(counter) == counter - 1

\* The value fetch_sub(1) returns to the frame task.
FetchSub(counter) == counter

\* ------------------------------------------------------------- observations
\* The callback records the arguments of its last OnFrame, when it was called
\* and which code called it.
Observed(cbs, from, safety) ==
  IF cbs = << >> THEN callback
  ELSE LET cb == cbs[Len(cbs)]
       IN [ count |-> callback.count + Len(cbs),
            last |-> << [ post_time |-> cb.post_time,
                          frames_scheduled_for_processing |-> cb.frames_scheduled_for_processing,
                          frame |-> cb.frame,
                          at |-> now, from |-> from, safety |-> safety ] >> ]

\* Safety flags handed out so far: one per constructed ZeroHertzAdapterMode.
FlagsAfter(r) ==
  IF HasValue(r.zero_hertz_adapter) /\ Value(r.zero_hertz_adapter).safety = history.flags + 1
    THEN history.flags + 1 ELSE history.flags

\* ----------------------------------------------------------------- initial
NoHistory ==
  [ frames |-> 0, config_ops |-> 0, layer_ops |-> 0, ticks |-> 0,
    flags |-> 0, accepted_at |-> << >>, first_deliveries |-> << >>,
    superseded |-> {}, dcheck_failed |-> FALSE, uma_reports |-> 0,
    last_dispatch |-> << >>, dropped |-> << >>,
    reinitialized |-> 0, rate_updates |-> 0, invalid_index |-> << >>,
    layer_call |-> << >> ]

\* The adapter as constructed.
Init ==
  /\ zero_hertz_screenshare_enabled \in BOOLEAN
  /\ current_adapter_mode = "null"
  /\ passthrough_adapter = << >>
  /\ zero_hertz_adapter = << >>
  /\ zero_hertz_params = << >>
  /\ source_constraints = << >>
  /\ has_reported_screenshare_frame_rate_umas = FALSE
  /\ frames_scheduled_for_processing = 0
  /\ queue = << >>
  /\ delayed = << >>
  /\ now = 0
  /\ incoming = << >>
  /\ callback = [count |-> 0, last |-> << >>]
  /\ history = NoHistory

\* The adapter after Initialize and a first configuration, before any frame:
\* SetZeroHertzModeEnabled, OnConstraintsChanged and its task have run, and on
\* an activated mode UpdateLayerStatus / UpdateLayerQualityConvergence have
\* put the trackers in any of their states.
TrackerStates == {<< >>, <<FALSE>>, <<TRUE>>}
InitConfigured ==
  /\ zero_hertz_screenshare_enabled \in BOOLEAN
  /\ passthrough_adapter = << PassthroughAdapterMode >>
  /\ zero_hertz_params \in ParamValues
  /\ source_constraints \in {<< >>} \cup {<<c>> : c \in ConstraintValues}
  /\ IF IsZeroHertzScreenshareEnabled(zero_hertz_screenshare_enabled,
                                      source_constraints, zero_hertz_params)
       THEN /\ current_adapter_mode = "zero_hertz"
            /\ \E trackers \in [1..Value(zero_hertz_params).num_simulcast_layers -> TrackerStates] :
                 zero_hertz_adapter =
                   << [ZeroHertzAdapterMode(Value(Value(source_constraints).max_fps),
                                            Value(zero_hertz_params), 1)
                         EXCEPT !.layer_trackers = trackers] >>
            /\ history = [NoHistory EXCEPT !.flags = 1]
       ELSE /\ current_adapter_mode = "passthrough"
            /\ zero_hertz_adapter = << >>
            /\ history = NoHistory
  /\ has_reported_screenshare_frame_rate_umas = FALSE
  /\ frames_scheduled_for_processing = 0
  /\ queue = << >>
  /\ delayed = << >>
  /\ now = 0
  /\ incoming = << >>
  /\ callback = [count |-> 0, last |-> << >>]

\* ----------------------------------------------------------------- actions
\* Initialize, the first call or a later one: there is no check that the
\* adapter is initialized already.
Initialize ==
  /\ passthrough_adapter' = << PassthroughAdapterMode >>
  /\ current_adapter_mode' = "passthrough"
  /\ history' = [history EXCEPT !.reinitialized =
                   IF current_adapter_mode # "null" THEN @ + 1 ELSE @]
  /\ UNCHANGED << zero_hertz_screenshare_enabled, zero_hertz_adapter, zero_hertz_params,
                  source_constraints, has_reported_screenshare_frame_rate_umas,
                  frames_scheduled_for_processing, queue, delayed, now, incoming,
                  callback >>

\* GetInputFrameRateFps: what the call returns in this state.
GetInputFrameRateFps ==
  IF current_adapter_mode = "zero_hertz"
    THEN ZhGetInputFrameRateFps(Value(zero_hertz_adapter))
    ELSE PassthroughGetInputFrameRateFps(Value(passthrough_adapter))

\* An UpdateFrameRate that goes to the current mode.
UpdateFrameRateOfCurrentMode ==
  /\ passthrough_adapter' =
       IF current_adapter_mode = "zero_hertz" THEN passthrough_adapter
       ELSE << PassthroughUpdateFrameRate(Value(passthrough_adapter)) >>
  /\ history' = [history EXCEPT !.rate_updates = @ + 1]
  /\ UNCHANGED << zero_hertz_screenshare_enabled, current_adapter_mode, zero_hertz_adapter,
                  zero_hertz_params, source_constraints,
                  has_reported_screenshare_frame_rate_umas, frames_scheduled_for_processing,
                  queue, delayed, now, incoming, callback >>

\* UpdateFrameRate: always into the passthrough adapter.
UpdateFrameRate ==
  /\ passthrough_adapter' = << PassthroughUpdateFrameRate(Value(passthrough_adapter)) >>
  /\ history' = [history EXCEPT !.rate_updates = @ + 1]
  /\ UNCHANGED << zero_hertz_screenshare_enabled, current_adapter_mode, zero_hertz_adapter,
                  zero_hertz_params, source_constraints,
                  has_reported_screenshare_frame_rate_umas, frames_scheduled_for_processing,
                  queue, delayed, now, incoming, callback >>

SetZeroHertzModeEnabled(params) ==
  LET was_zero_hertz_enabled == HasValue(zero_hertz_params)
      r == MaybeReconfigureAdapters(was_zero_hertz_enabled, source_constraints, params,
                                    zero_hertz_adapter, history.flags + 1)
  IN /\ has_reported_screenshare_frame_rate_umas' =
          IF HasValue(params) /\ ~was_zero_hertz_enabled
            THEN FALSE ELSE has_reported_screenshare_frame_rate_umas
     /\ zero_hertz_params' = params
     /\ zero_hertz_adapter' = r.zero_hertz_adapter
     /\ current_adapter_mode' = r.current_adapter_mode
     /\ history' = [history EXCEPT !.config_ops = @ + 1, !.flags = FlagsAfter(r)]
     /\ UNCHANGED << zero_hertz_screenshare_enabled, passthrough_adapter, source_constraints,
                     frames_scheduled_for_processing, queue, delayed, now, incoming,
                     callback >>

\* OnConstraintsChanged, on the caller's thread: post the task.
OnConstraintsChanged(constraints) ==
  /\ queue' = Append(queue, [type |-> "constraints", constraints |-> constraints])
  /\ history' = [history EXCEPT !.config_ops = @ + 1]
  /\ UNCHANGED << zero_hertz_screenshare_enabled, current_adapter_mode, passthrough_adapter,
                  zero_hertz_adapter, zero_hertz_params, source_constraints,
                  has_reported_screenshare_frame_rate_umas, frames_scheduled_for_processing,
                  delayed, now, incoming, callback >>

\* The task OnConstraintsChanged posted, on the task queue.
ConstraintsTask ==
  /\ queue # << >>
  /\ Head(queue).type = "constraints"
  /\ LET was_zero_hertz_enabled ==
           IsZeroHertzScreenshareEnabled(zero_hertz_screenshare_enabled,
                                         source_constraints, zero_hertz_params)
         r == MaybeReconfigureAdapters(was_zero_hertz_enabled,
                                       << Head(queue).constraints >>, zero_hertz_params,
                                       zero_hertz_adapter, history.flags + 1)
     IN /\ source_constraints' = << Head(queue).constraints >>
        /\ zero_hertz_adapter' = r.zero_hertz_adapter
        /\ current_adapter_mode' = r.current_adapter_mode
        /\ history' = [history EXCEPT !.flags = FlagsAfter(r)]
  /\ queue' = Tail(queue)
  /\ UNCHANGED << zero_hertz_screenshare_enabled, passthrough_adapter, zero_hertz_params,
                  has_reported_screenshare_frame_rate_umas, frames_scheduled_for_processing,
                  delayed, now, incoming, callback >>

\* An OnFrame that posts its task without counting the frame.
OnFrameBeginUncounted(kind) ==
  /\ incoming = << >>
  /\ incoming' = << [ post_time |-> now,
                      frame |-> [ id |-> history.frames + 1,
                                  timestamp_us |-> kind.timestamp_us,
                                  ntp_time_ms |-> kind.ntp_time_ms,
                                  update_rect |-> kind.update_rect,
                                  source |-> kind ] ] >>
  /\ history' = [history EXCEPT !.frames = @ + 1]
  /\ UNCHANGED << zero_hertz_screenshare_enabled, current_adapter_mode, passthrough_adapter,
                  zero_hertz_adapter, zero_hertz_params, source_constraints,
                  has_reported_screenshare_frame_rate_umas,
                  frames_scheduled_for_processing, queue, delayed, now, callback >>

\* OnFrame on the frame thread, up to and including fetch_add.
OnFrameBegin(kind) ==
  /\ incoming = << >>
  /\ incoming' = << [ post_time |-> now,
                      frame |-> [ id |-> history.frames + 1,
                                  timestamp_us |-> kind.timestamp_us,
                                  ntp_time_ms |-> kind.ntp_time_ms,
                                  update_rect |-> kind.update_rect,
                                  source |-> kind ] ] >>
  /\ frames_scheduled_for_processing' = frames_scheduled_for_processing + 1
  /\ history' = [history EXCEPT !.frames = @ + 1]
  /\ UNCHANGED << zero_hertz_screenshare_enabled, current_adapter_mode, passthrough_adapter,
                  zero_hertz_adapter, zero_hertz_params, source_constraints,
                  has_reported_screenshare_frame_rate_umas, queue, delayed, now, callback >>

\* OnFrame on the frame thread: PostTask.
OnFramePost ==
  /\ incoming # << >>
  /\ queue' = Append(queue, [ type |-> "frame", post_time |-> Value(incoming).post_time,
                              frame |-> Value(incoming).frame ])
  /\ incoming' = << >>
  /\ UNCHANGED << zero_hertz_screenshare_enabled, current_adapter_mode, passthrough_adapter,
                  zero_hertz_adapter, zero_hertz_params, source_constraints,
                  has_reported_screenshare_frame_rate_umas, frames_scheduled_for_processing,
                  delayed, now, callback, history >>

\* A report that does not look at the params.
ReportsUmasWithoutParams == ~has_reported_screenshare_frame_rate_umas

\* MaybeReportFrameRateConstraintUmas: whether this call emits the histograms.
ReportsUmas == ~has_reported_screenshare_frame_rate_umas /\ HasValue(zero_hertz_params)

\* The task OnFrame posted, on the task queue: fetch_sub, OnFrameOnMainQueue
\* into the current mode, MaybeReportFrameRateConstraintUmas.
FrameTask ==
  /\ queue # << >>
  /\ Head(queue).type = "frame"
  /\ LET task == Head(queue)
         count == FetchSub(frames_scheduled_for_processing)
         r == IF current_adapter_mode = "passthrough"
                THEN [ zh |-> zero_hertz_adapter, posts |-> << >>,
                       cbs |-> << PassthroughOnFrame(task.post_time, count, task.frame) >>,
                       dcheck_ok |-> TRUE ]
                ELSE LET z == ZhOnFrame(Value(zero_hertz_adapter), task.frame)
                     IN [ zh |-> << z.zh >>, posts |-> z.posts, cbs |-> z.cbs,
                          dcheck_ok |-> z.dcheck_ok ]
         zh_mode == current_adapter_mode = "zero_hertz"
     IN /\ frames_scheduled_for_processing' = frames_scheduled_for_processing - 1
        /\ zero_hertz_adapter' = r.zh
        /\ delayed' = delayed \o r.posts
        /\ callback' = Observed(r.cbs, "passthrough", -1)
        /\ history' =
             [history EXCEPT
                !.last_dispatch = << [ frame |-> task.frame, post_time |-> task.post_time,
                                       count |-> count, mode |-> current_adapter_mode,
                                       pending |-> Len(SelectSeq(queue,
                                                     LAMBDA t : t.type = "frame")),
                                       posting |-> incoming # << >>, at |-> now,
                                       callbacks |-> callback.count ] >>,
                !.accepted_at = IF zh_mode THEN (task.frame.id :> now) @@ @ ELSE @,
                !.layer_call = IF zh_mode THEN << >> ELSE @,
                !.first_deliveries = (task.frame.id :> (IF zh_mode THEN 0 ELSE 1)) @@ @,
                !.superseded = IF zh_mode /\ Value(zero_hertz_adapter).is_repeating
                                 THEN @ \cup {Head(Value(zero_hertz_adapter).queued_frames).id}
                                 ELSE @,
                !.dcheck_failed = @ \/ ~r.dcheck_ok,
                !.uma_reports = IF ReportsUmas THEN @ + 1 ELSE @]
  /\ queue' = Tail(queue)
  /\ has_reported_screenshare_frame_rate_umas' = TRUE
  /\ UNCHANGED << zero_hertz_screenshare_enabled, current_adapter_mode, passthrough_adapter,
                  zero_hertz_params, source_constraints, now, incoming >>

\* The delayed task the queue runs next: the first one posted among those due.
DueTasks == {i \in DOMAIN delayed : delayed[i].deadline <= now}
NextDue == CHOOSE i \in DueTasks : \A j \in DueTasks : i <= j
Without(seq, i) == SubSeq(seq, 1, i - 1) \o SubSeq(seq, i + 1, Len(seq))

\* A delayed task of the zero-hertz mode runs: nothing if its safety flag is
\* dead, else ProcessOnDelayedCadence or ProcessRepeatedFrameOnDelayedCadence.
DelayedTaskRun ==
  /\ DueTasks # {}
  /\ LET task == delayed[NextDue]
         rest == Without(delayed, NextDue)
     IN IF ~SafetyAlive(task.safety, zero_hertz_adapter)
          THEN /\ delayed' = rest
               /\ history' = [history EXCEPT !.dropped =
                                << [ kind |-> task.kind, frame_id |-> task.frame_id,
                                     live_frame_id |->
                                       IF HasValue(zero_hertz_adapter)
                                         THEN Value(zero_hertz_adapter).current_frame_id
                                         ELSE -1 ] >>]
               /\ UNCHANGED << zero_hertz_adapter, callback >>
          ELSE LET zh == Value(zero_hertz_adapter)
                   r == IF task.kind = "process"
                          THEN ProcessOnDelayedCadence(zh)
                          ELSE ProcessRepeatedFrameOnDelayedCadence(
                                 zh, task.frame_id, task.scheduled_delay)
               IN /\ zero_hertz_adapter' = << r.zh >>
                  /\ delayed' = rest \o r.posts
                  /\ callback' = Observed(r.cbs, task.kind, task.safety)
                  /\ history' =
                       [history EXCEPT
                          !.first_deliveries =
                             IF task.kind = "process" /\ r.cbs # << >>
                               THEN [@ EXCEPT ![r.cbs[1].frame.id] = @ + 1] ELSE @,
                          !.dcheck_failed = @ \/ ~r.dcheck_ok]
  /\ UNCHANGED << zero_hertz_screenshare_enabled, current_adapter_mode, passthrough_adapter,
                  zero_hertz_params, source_constraints,
                  has_reported_screenshare_frame_rate_umas, frames_scheduled_for_processing,
                  queue, now, incoming >>

\* layer_trackers_[spatial_index] with spatial_index outside the vector.  In a
\* build with RTC_DCHECK on, the check fails and the process ends.  In a build
\* without, the access is out of bounds, which is undefined: the call reads
\* memory that is not a tracker and, if it stores, writes memory that is not a
\* tracker.  UpdateLayerStatus(i, false) always stores; the other calls store
\* depending on what they read.
IndexInRange(spatial_index) ==
  spatial_index + 1 \in DOMAIN Value(zero_hertz_adapter).layer_trackers
OutOfBoundsOutcomes(always_stores) ==
  IF always_stores THEN {"dcheck", "write"} ELSE {"dcheck", "read", "write"}
\* The call, as the bookkeeping records it: the last one made since a frame
\* was accepted by the zero-hertz mode.
LayerCall(op, spatial_index, value) ==
  [op |-> op, spatial_index |-> spatial_index, value |-> value]
OutOfBoundsAccess(call, always_stores) ==
  \E outcome \in OutOfBoundsOutcomes(always_stores) :
    /\ zero_hertz_adapter' = zero_hertz_adapter
    /\ history' = [history EXCEPT !.layer_ops = @ + 1,
                                  !.layer_call = << call >>,
                                  !.invalid_index = << outcome >>,
                                  !.dcheck_failed = @ \/ outcome = "dcheck"]

UpdateLayerQualityConvergence(spatial_index, quality_converged) ==
  /\ IF HasValue(zero_hertz_adapter) /\ ~IndexInRange(spatial_index)
       THEN OutOfBoundsAccess(LayerCall("convergence", spatial_index, quality_converged),
                              FALSE)
       ELSE /\ zero_hertz_adapter' =
                 IF HasValue(zero_hertz_adapter)
                   THEN << ZhUpdateLayerQualityConvergence(Value(zero_hertz_adapter),
                                                           spatial_index, quality_converged) >>
                   ELSE zero_hertz_adapter
            /\ history' = [history EXCEPT
                             !.layer_ops = @ + 1, !.invalid_index = << >>,
                             !.layer_call = << LayerCall("convergence", spatial_index,
                                                         quality_converged) >>]
  /\ UNCHANGED << zero_hertz_screenshare_enabled, current_adapter_mode, passthrough_adapter,
                  zero_hertz_params, source_constraints,
                  has_reported_screenshare_frame_rate_umas, frames_scheduled_for_processing,
                  queue, delayed, now, incoming, callback >>

UpdateLayerStatus(spatial_index, enabled) ==
  /\ IF HasValue(zero_hertz_adapter) /\ ~IndexInRange(spatial_index)
       THEN OutOfBoundsAccess(LayerCall("status", spatial_index, enabled), ~enabled)
       ELSE /\ zero_hertz_adapter' =
                 IF HasValue(zero_hertz_adapter)
                   THEN << ZhUpdateLayerStatus(Value(zero_hertz_adapter),
                                               spatial_index, enabled) >>
                   ELSE zero_hertz_adapter
            /\ history' = [history EXCEPT
                             !.layer_ops = @ + 1, !.invalid_index = << >>,
                             !.layer_call = << LayerCall("status", spatial_index, enabled) >>]
  /\ UNCHANGED << zero_hertz_screenshare_enabled, current_adapter_mode, passthrough_adapter,
                  zero_hertz_params, source_constraints,
                  has_reported_screenshare_frame_rate_umas, frames_scheduled_for_processing,
                  queue, delayed, now, incoming, callback >>

\* ---------------------------------------------------------------------- time
Deadlines == {delayed[i].deadline : i \in DOMAIN delayed}
NextDeadline == CHOOSE d \in Deadlines : \A e \in Deadlines : d <= e

\* The clock reaches the next deadline.
AdvanceToDeadline ==
  /\ Deadlines # {}
  /\ NextDeadline > now
  /\ now' = NextDeadline
  /\ UNCHANGED << zero_hertz_screenshare_enabled, current_adapter_mode, passthrough_adapter,
                  zero_hertz_adapter, zero_hertz_params, source_constraints,
                  has_reported_screenshare_frame_rate_umas, frames_scheduled_for_processing,
                  queue, delayed, incoming, callback, history >>

\* The clock moves by TickStep without reaching a deadline.
Tick ==
  /\ Deadlines # {} => now + TickStep < NextDeadline
  /\ now' = now + TickStep
  /\ history' = [history EXCEPT !.ticks = @ + 1]
  /\ UNCHANGED << zero_hertz_screenshare_enabled, current_adapter_mode, passthrough_adapter,
                  zero_hertz_adapter, zero_hertz_params, source_constraints,
                  has_reported_screenshare_frame_rate_umas, frames_scheduled_for_processing,
                  queue, delayed, incoming, callback >>

\* ------------------------------------------------------------ specification
Initialized == current_adapter_mode # "null"
LayerIndexes ==
  IF HasValue(zero_hertz_adapter)
    THEN {i - 1 : i \in DOMAIN Value(zero_hertz_adapter).layer_trackers}
    ELSE {0}
PlainFrame == [timestamp_us |-> 1000, ntp_time_ms |-> 500, update_rect |-> "full"]

\* Every operation.  Initialize is called once, before any other operation.
Next ==
  \/ ~Initialized /\ Initialize
  \/ Initialized /\ history.config_ops < MaxConfigOps
       /\ \E params \in ParamValues : SetZeroHertzModeEnabled(params)
  \/ Initialized /\ history.config_ops < MaxConfigOps
       /\ \E constraints \in ConstraintValues : OnConstraintsChanged(constraints)
  \/ ConstraintsTask
  \/ Initialized /\ history.frames < MaxFrames
       /\ \E kind \in FrameKinds : OnFrameBegin(kind)
  \/ OnFramePost
  \/ FrameTask
  \/ DelayedTaskRun
  \/ Initialized /\ history.layer_ops < MaxLayerOps
       /\ \E i \in LayerIndexes, c \in BOOLEAN : UpdateLayerQualityConvergence(i, c)
  \/ Initialized /\ history.layer_ops < MaxLayerOps
       /\ \E i \in LayerIndexes, e \in BOOLEAN : UpdateLayerStatus(i, e)
  \/ Initialized /\ history.rate_updates < MaxRateUpdates /\ UpdateFrameRate
  \/ AdvanceToDeadline /\ now' <= MaxTime
  \/ history.ticks < MaxTicks /\ now + TickStep <= MaxTime /\ Tick

\* Configuration from construction on, with a frame routed to whichever mode
\* is current.
Configuring ==
  \/ ~Initialized /\ Initialize
  \/ Initialized /\ history.config_ops < MaxConfigurations
       /\ \E params \in ParamValues : SetZeroHertzModeEnabled(params)
  \/ Initialized /\ history.config_ops < MaxConfigurations
       /\ \E constraints \in ConstraintValues : OnConstraintsChanged(constraints)
  \/ ConstraintsTask
  \/ Initialized /\ history.frames < MaxFrames /\ OnFrameBegin(PlainFrame)
  \/ OnFramePost
  \/ FrameTask

\* Zero-hertz mode switched off and on while frames flow: configuration
\* changes, frames of one kind, tasks and deadlines.
Reconfiguring ==
  \/ history.config_ops < MaxConfigOps
       /\ \E params \in ParamValues : SetZeroHertzModeEnabled(params)
  \/ history.config_ops < MaxConfigOps
       /\ \E constraints \in SwitchingConstraints : OnConstraintsChanged(constraints)
  \/ ConstraintsTask
  \/ history.frames < MaxBurst /\ OnFrameBegin(PlainFrame)
  \/ OnFramePost
  \/ FrameTask
  \/ DelayedTaskRun
  \/ AdvanceToDeadline /\ now' <= MaxTime

\* Frames of one kind arriving at any time: the frame thread, the task queue
\* and the clock.
Arriving ==
  \/ history.frames < MaxBurst /\ OnFrameBegin(PlainFrame)
  \/ OnFramePost
  \/ FrameTask
  \/ DelayedTaskRun
  \/ AdvanceToDeadline /\ now' <= MaxTime
  \/ history.ticks < MaxTicks /\ now + TickStep <= MaxTime /\ Tick

\* Bursts of frames, layer updates with valid indexes and task firings, in any
\* order.
Queueing ==
  \/ history.frames < MaxBurst /\ OnFrameBegin(PlainFrame)
  \/ OnFramePost
  \/ FrameTask
  \/ DelayedTaskRun
  \/ history.layer_ops < MaxLayerOps
       /\ \E i \in LayerIndexes, c \in BOOLEAN : UpdateLayerQualityConvergence(i, c)
  \/ history.layer_ops < MaxLayerOps
       /\ \E i \in LayerIndexes, e \in BOOLEAN : UpdateLayerStatus(i, e)
  \/ AdvanceToDeadline /\ now' <= MaxTime

\* The source going idle after a frame: the frame, layer updates with valid
\* indexes, the delayed tasks and the clock.
Idling ==
  \/ history.frames < MaxFrames /\ OnFrameBegin(PlainFrame)
  \/ OnFramePost
  \/ FrameTask
  \/ DelayedTaskRun
  \/ history.layer_ops < MaxLayerOps
       /\ \E i \in LayerIndexes, c \in BOOLEAN : UpdateLayerQualityConvergence(i, c)
  \/ history.layer_ops < MaxLayerOps
       /\ \E i \in LayerIndexes, e \in BOOLEAN : UpdateLayerStatus(i, e)
  \/ AdvanceToDeadline /\ now' <= MaxTime

\* A frame of any kind repeated while the encoder reports on its layers.
Repeating ==
  \/ history.frames < MaxFrames
       /\ \E kind \in FrameKinds : OnFrameBegin(kind)
  \/ OnFramePost
  \/ FrameTask
  \/ DelayedTaskRun
  \/ history.layer_ops < MaxLayerOps
       /\ \E i \in LayerIndexes, c \in BOOLEAN : UpdateLayerQualityConvergence(i, c)
  \/ history.layer_ops < MaxLayerOps
       /\ \E i \in LayerIndexes, e \in BOOLEAN : UpdateLayerStatus(i, e)
  \/ AdvanceToDeadline /\ now' <= MaxTime

\* Initialize called again on a configured adapter, between rate updates and
\* frames.
Reinitializing ==
  \/ history.reinitialized < MaxReinitializations /\ Initialize
  \/ history.rate_updates < MaxRateUpdates /\ UpdateFrameRate
  \/ history.frames < MaxFrames /\ OnFrameBegin(PlainFrame)
  \/ OnFramePost
  \/ FrameTask
  \/ history.ticks < MaxTicks /\ now + TickStep <= MaxTime /\ Tick

\* The encoder reporting on its layers, with any spatial index, before and
\* after a frame is accepted.
Reporting ==
  \/ history.layer_ops < MaxLayerCalls
       /\ \E i \in SpatialIndexes, c \in BOOLEAN : UpdateLayerQualityConvergence(i, c)
  \/ history.layer_ops < MaxLayerCalls
       /\ \E i \in SpatialIndexes, e \in BOOLEAN : UpdateLayerStatus(i, e)
  \/ history.frames < MaxFrames /\ OnFrameBegin(PlainFrame)
  \/ OnFramePost
  \/ FrameTask

\* The frame rate recorded and read while zero-hertz mode is switched off and
\* on or given another max_fps, a frame flows and time passes.
Estimating ==
  \/ history.rate_updates < MaxRateUpdates /\ UpdateFrameRate
  \/ history.config_ops < MaxConfigOps
       /\ \E params \in ParamValues : SetZeroHertzModeEnabled(params)
  \/ history.config_ops < MaxConfigOps
       /\ \E constraints \in RateConstraints : OnConstraintsChanged(constraints)
  \/ ConstraintsTask
  \/ history.frames < MaxFrames /\ OnFrameBegin(PlainFrame)
  \/ OnFramePost
  \/ FrameTask
  \/ DelayedTaskRun
  \/ AdvanceToDeadline /\ now' <= MaxTime

\* Configured so that zero-hertz mode is active.
InitCadence == InitConfigured /\ current_adapter_mode = "zero_hertz"
\* Zero-hertz mode just activated: its trackers are unset.
InitActivated == InitCadence /\ FreshMode(Value(zero_hertz_adapter))
\* Zero-hertz mode with every layer enabled and reported converged.
InitConverged ==
  /\ InitCadence
  /\ \A i \in DOMAIN Value(zero_hertz_adapter).layer_trackers :
       Value(zero_hertz_adapter).layer_trackers[i] = << TRUE >>

\* From construction, every operation.
Spec == Init /\ [][Next]_vars
\* From construction, configuring.
SpecConfigure == Init /\ [][Configuring]_vars
\* From an activated zero-hertz mode, switching it off and on.
SpecReconfigure == InitActivated /\ [][Reconfiguring]_vars
\* From every first configuration and tracker state, frames arriving.
SpecArrival == InitConfigured /\ [][Arriving]_vars
\* From every configuration that activates zero-hertz mode, one frame repeating.
SpecRepeat == InitCadence /\ [][Repeating]_vars
\* From an activated zero-hertz mode, the encoder reporting on its layers.
SpecLayers == InitActivated /\ [][Reporting]_vars
\* From an activated zero-hertz mode, the frame rate estimated.
SpecRate == InitActivated /\ [][Estimating]_vars
\* From a zero-hertz mode whose layers have all converged, a new frame.
SpecRefresh == InitConverged /\ [][Repeating]_vars
\* From an activated zero-hertz mode, frames queued and processed.
SpecQueue == InitActivated /\ [][Queueing]_vars
\* From an activated zero-hertz mode, the source going idle.  The task queue
\* runs every delayed task that is due, and the clock reaches every deadline
\* up to MaxTime.
SpecIdle ==
  /\ InitActivated
  /\ [][Idling]_vars
  /\ WF_vars(DelayedTaskRun)
  /\ WF_vars(AdvanceToDeadline /\ now' <= MaxTime)
\* From every first configuration, Initialize called again.
SpecReinitialize == InitConfigured /\ [][Reinitializing]_vars

\* ============================================================== properties
\* Steps, as seen from outside.
CallbackInvoked == callback'.count # callback.count
Delivered == Value(callback'.last)
\* The task queue runs a delayed task.
DelayedStep == DueTasks # {} /\ delayed' # delayed /\ queue' = queue
\* The task queue runs the frame task at the head of the queue.
DispatchStep == queue # << >> /\ Head(queue).type = "frame" /\ queue' = Tail(queue)
PendingFrameTasks == Len(SelectSeq(queue, LAMBDA t : t.type = "frame"))

\* ---------------------------------------------------------------------- C1
StaleRepeatRuns ==
  /\ DelayedStep
  /\ delayed[NextDue].kind = "repeat"
  /\ SafetyAlive(delayed[NextDue].safety, zero_hertz_adapter)
  /\ delayed[NextDue].frame_id # Value(zero_hertz_adapter).current_frame_id

\* C1: zero-hertz cancellation.  Once the mode has accepted a frame while an
\* earlier frame was the repeat source, the callback is never invoked with the
\* earlier frame again; a repeat task whose frame_id is not current_frame_id
\* invokes no callback, schedules nothing and changes nothing in the mode.
C1_ZeroHertzCancellation ==
  [][ /\ CallbackInvoked => Delivered.frame.id \notin history'.superseded
      /\ StaleRepeatRuns => /\ callback' = callback
                            /\ zero_hertz_adapter' = zero_hertz_adapter
                            /\ delayed' = Without(delayed, NextDue) ]_vars

\* A frame was superseded while repeating, its repeat task has since run, and
\* the newer frame is the one repeating.
C1_Witness ==
  /\ HasValue(zero_hertz_adapter)
  /\ history.superseded # {}
  /\ Value(zero_hertz_adapter).is_repeating
  /\ \A i \in DOMAIN delayed :
       delayed[i].kind = "repeat" =>
         delayed[i].frame_id = Value(zero_hertz_adapter).current_frame_id

\* ---------------------------------------------------------------------- C2
PassthroughDispatch == DispatchStep /\ current_adapter_mode = "passthrough"
DispatchedInPassthrough(id) ==
  id \in DOMAIN history.first_deliveries /\ id \notin DOMAIN history.accepted_at

\* C2: passthrough identity.  A frame dispatched while passthrough is current
\* produces exactly one callback, with the frame as the source made it and the
\* post_time taken in OnFrame, and is never delivered again; with one frame
\* task pending and no OnFrame under way the count is 1.
C2_PassthroughIdentity ==
  [][ /\ PassthroughDispatch =>
           /\ callback'.count = callback.count + 1
           /\ Delivered.frame = Head(queue).frame
           /\ Delivered.frame.timestamp_us = Delivered.frame.source.timestamp_us
           /\ Delivered.frame.ntp_time_ms = Delivered.frame.source.ntp_time_ms
           /\ Delivered.frame.update_rect = Delivered.frame.source.update_rect
           /\ Delivered.post_time = Head(queue).post_time
           /\ delayed' = delayed
           /\ (PendingFrameTasks = 1 /\ incoming = << >>
                 => Delivered.frames_scheduled_for_processing = 1)
      /\ CallbackInvoked => ~DispatchedInPassthrough(Delivered.frame.id) ]_vars

\* A passthrough delivery whose task ran later than OnFrame was called.
C2_Witness ==
  /\ callback.last # << >>
  /\ Value(callback.last).from = "passthrough"
  /\ Value(callback.last).at > Value(callback.last).post_time
  /\ Value(callback.last).frames_scheduled_for_processing = 1

\* ---------------------------------------------------------------------- C3
\* C3 as stated: the count handed to the mode is the number of frame tasks
\* still pending, the dispatched one excluded.
C3_CountExcludesDispatched ==
  history.last_dispatch # << >> =>
    Value(history.last_dispatch).count = Value(history.last_dispatch).pending - 1

\* C3, amended: the count handed to the mode is the counter before the
\* decrement: the frame tasks pending, the dispatched one included, plus one
\* if the frame thread has incremented the counter and not yet posted its task.
C3_CountIncludesDispatched ==
  history.last_dispatch # << >> =>
    Value(history.last_dispatch).count =
      Value(history.last_dispatch).pending
        + (IF Value(history.last_dispatch).posting THEN 1 ELSE 0)

\* A dispatch with a second frame's OnFrame under way.
C3_Witness ==
  /\ history.last_dispatch # << >>
  /\ Value(history.last_dispatch).posting
  /\ Value(history.last_dispatch).count = 2

\* ---------------------------------------------------------------------- C4
\* The conditions of zero-hertz screenshare, spelled out.
ZeroHertzConditions ==
  /\ zero_hertz_screenshare_enabled
  /\ source_constraints # << >>
  /\ Value(source_constraints).max_fps # << >>
  /\ Value(Value(source_constraints).max_fps) > 0
  /\ Value(source_constraints).min_fps # << >>
  /\ Value(Value(source_constraints).min_fps) = 0
  /\ zero_hertz_params # << >>

ModeMatchesConditions ==
  Initialized =>
    /\ zero_hertz_adapter # << >> <=> ZeroHertzConditions
    /\ current_adapter_mode = "zero_hertz" <=> ZeroHertzConditions
    /\ current_adapter_mode = "passthrough" <=> ~ZeroHertzConditions

\* A dispatched frame goes to the mode current when its task runs, and to no other.
RoutedToCurrentMode ==
  IF current_adapter_mode = "zero_hertz"
    THEN /\ callback' = callback
         /\ zero_hertz_adapter' # << >>
         /\ LET q == Value(zero_hertz_adapter').queued_frames
            IN q # << >> /\ q[Len(q)] = Head(queue).frame
    ELSE /\ callback'.count = callback.count + 1
         /\ Delivered.from = "passthrough"
         /\ Delivered.frame = Head(queue).frame
         /\ zero_hertz_adapter' = zero_hertz_adapter
         /\ delayed' = delayed

\* C4: mode selection.  After Initialize and any SetZeroHertzModeEnabled and
\* OnConstraintsChanged, the zero-hertz mode exists and is current exactly when
\* the field trial is on, constraints are present with max_fps > 0 and
\* min_fps = 0, and params are present; otherwise passthrough is current and
\* no zero-hertz mode exists.  A dispatched frame is routed to the current mode only.
C4_ModeSelection ==
  /\ []ModeMatchesConditions
  /\ [][DispatchStep => RoutedToCurrentMode]_vars

\* Zero-hertz was activated and left again, and passthrough has taken a frame.
C4_Witness ==
  /\ history.flags = 1
  /\ current_adapter_mode = "passthrough"
  /\ zero_hertz_adapter = << >>
  /\ callback.last # << >>
  /\ Value(callback.last).from = "passthrough"

\* ---------------------------------------------------------------------- C5
TaskOwnerLive ==
  /\ zero_hertz_adapter # << >>
  /\ delayed[NextDue].safety = Value(zero_hertz_adapter).safety

NewActivation ==
  /\ zero_hertz_adapter' # << >>
  /\ zero_hertz_adapter = << >>
       \/ Value(zero_hertz_adapter').safety # Value(zero_hertz_adapter).safety

\* C5: teardown.  Leaving zero-hertz for passthrough destroys the mode; a
\* delayed task of a destroyed mode that fires later invokes no callback and
\* touches no mode, also when a new mode is active; a newly activated mode has
\* an empty queue, current_frame_id 0, is_repeating false and all trackers unset.
C5_Teardown ==
  [][ /\ current_adapter_mode = "zero_hertz" /\ current_adapter_mode' = "passthrough"
           => zero_hertz_adapter' = << >>
      /\ DelayedStep /\ ~TaskOwnerLive
           => /\ callback' = callback
              /\ zero_hertz_adapter' = zero_hertz_adapter
              /\ delayed' = Without(delayed, NextDue)
              /\ history'.dcheck_failed = history.dcheck_failed
      /\ CallbackInvoked /\ Delivered.from # "passthrough"
           => /\ zero_hertz_adapter # << >>
              /\ Delivered.safety = Value(zero_hertz_adapter).safety
      /\ NewActivation => FreshMode(Value(zero_hertz_adapter')) ]_vars

\* A repeat task of a destroyed mode fired while a new mode had reached the
\* frame_id the task carries.
C5_Witness ==
  /\ history.dropped # << >>
  /\ Value(history.dropped).kind = "repeat"
  /\ Value(history.dropped).frame_id = Value(history.dropped).live_frame_id

\* ---------------------------------------------------------------------- C6
ProcessDelivery == CallbackInvoked /\ Delivered.from = "process"
RepeatDelivery == CallbackInvoked /\ Delivered.from = "repeat"
Mode == Value(zero_hertz_adapter)
FrontFrame == Head(Mode.queued_frames)

\* The frame delivered now was accepted before the previous frame was
\* delivered: the two are consecutive frames of one burst.
BurstContinues ==
  /\ ProcessDelivery
  /\ callback.last # << >>
  /\ Value(callback.last).from = "process"
  /\ Value(callback.last).frame.id = Delivered.frame.id - 1
  /\ history.accepted_at[Delivered.frame.id] < Value(callback.last).at

\* C6 as stated: consecutive deliveries of a burst are frame_delay apart.
C6_BurstSpacedByFrameDelay ==
  [][ BurstContinues =>
        Delivered.at - Value(callback.last).at = Ms(Mode.frame_delay) ]_vars

\* Frames wait in arrival order, and only the frame that is repeating has
\* been delivered.
QueuedInOrderUndelivered ==
  zero_hertz_adapter # << >> =>
    /\ \A i, j \in DOMAIN Mode.queued_frames :
         i < j => Mode.queued_frames[i].id < Mode.queued_frames[j].id
    /\ \A i \in DOMAIN Mode.queued_frames :
         history.first_deliveries[Mode.queued_frames[i].id]
           = (IF Mode.is_repeating THEN 1 ELSE 0)

\* C6, amended: queue discipline.  Every frame of a burst is delivered exactly
\* once, oldest first, with no repeat while another frame waits, and each one
\* frame_delay after the mode accepted it; so the deliveries are spaced as the
\* arrivals were.
C6_BurstDeliveredOnArrivalCadence ==
  /\ []QueuedInOrderUndelivered
  /\ [][ /\ ProcessDelivery =>
              /\ Delivered.frame.id = FrontFrame.id
              /\ history.first_deliveries[FrontFrame.id] = 0
              /\ history'.first_deliveries[FrontFrame.id] = 1
              /\ Delivered.at = history.accepted_at[FrontFrame.id] + Ms(Mode.frame_delay)
         /\ CallbackInvoked /\ zero_hertz_adapter # << >> /\ Len(Mode.queued_frames) > 1
              => Delivered.from = "process" ]_vars

\* Two frames accepted at different times within the first frame's delay
\* window, both delivered.
C6_Witness ==
  /\ callback.last # << >>
  /\ Value(callback.last).from = "process"
  /\ Value(callback.last).frame.id = 2
  /\ history.first_deliveries[1] = 1
  /\ history.accepted_at[2] > history.accepted_at[1]
  /\ Value(callback.last).at - history.accepted_at[2] > history.accepted_at[2] - history.accepted_at[1]

\* ---------------------------------------------------------------------- C7
NoneUnconverged(trackers) == \A i \in DOMAIN trackers : trackers[i] # <<FALSE>>
SomeUnconverged(trackers) == \E i \in DOMAIN trackers : trackers[i] = <<FALSE>>
\* A delivery after which the mode is repeating has scheduled a repeat: the
\* last task posted.
SchedulesRepeat ==
  CallbackInvoked /\ Delivered.from # "passthrough" /\ Value(zero_hertz_adapter').is_repeating
Scheduled == delayed'[Len(delayed')]

\* C7: idle slow-down.  A repeat is delivered exactly the delay it was
\* scheduled with after the previous delivery of the frame, and a repeat
\* scheduled while every enabled layer is converged is scheduled with
\* kZeroHertzIdleRepeatRatePeriod.
C7_IdleSlowDown ==
  [][ /\ RepeatDelivery =>
           /\ Value(callback.last).frame.id = Delivered.frame.id
           /\ Delivered.at - Value(callback.last).at = Ms(delayed[NextDue].scheduled_delay)
      /\ SchedulesRepeat /\ NoneUnconverged(Value(zero_hertz_adapter').layer_trackers) =>
           /\ delayed' # << >>
           /\ Scheduled.kind = "repeat"
           /\ Scheduled.frame_id = Value(zero_hertz_adapter').current_frame_id
           /\ Scheduled.scheduled_delay = kZeroHertzIdleRepeatRatePeriodUs
           /\ Scheduled.deadline = now + Ms(kZeroHertzIdleRepeatRatePeriodUs) ]_vars

\* A repeat delivered one idle period after the frame's first delivery, with
\* an enabled layer converged.
C7_Witness ==
  /\ callback.last # << >>
  /\ Value(callback.last).from = "repeat"
  /\ Value(callback.last).at =
       history.accepted_at[Value(callback.last).frame.id] + Ms(Mode.frame_delay) + Ms(kZeroHertzIdleRepeatRatePeriodUs)
  /\ \E i \in DOMAIN Mode.layer_trackers : Mode.layer_trackers[i] = <<TRUE>>

\* ---------------------------------------------------------------------- C8
\* Whatever the mode's state, after UpdateLayerQualityConvergence(i, false) on
\* an enabled layer the delay ScheduleRepeat picks is frame_delay.
UnconvergeSelectsFrameDelay ==
  zero_hertz_adapter # << >> =>
    \A i \in DOMAIN Mode.layer_trackers :
      Mode.layer_trackers[i] # << >> =>
        LET after == ZhUpdateLayerQualityConvergence(Mode, i - 1, FALSE)
        IN /\ after.layer_trackers[i] = <<FALSE>>
           /\ RepeatDelay(after) = Mode.frame_delay

C9_RepeatTimestamps ==
  [][ RepeatDelivery =>
        LET d == delayed[NextDue].scheduled_delay
            prev == Value(callback.last).frame
        IN /\ prev.id = Delivered.frame.id
           /\ Delivered.at - Value(callback.last).at = Ms(d)
           /\ Delivered.frame.timestamp_us =
                IF prev.timestamp_us > 0 THEN prev.timestamp_us + d ELSE prev.timestamp_us
           /\ Delivered.frame.ntp_time_ms =
                IF prev.ntp_time_ms > 0 THEN prev.ntp_time_ms + Ms(d) ELSE prev.ntp_time_ms ]_vars

\* --------------------------------------------------------------------- C10
\* C10: the first delivery of a frame carries it as the source made it, update
\* rectangle included; every repeat carries an empty update rectangle.
C10_UpdateRect ==
  [][ /\ ProcessDelivery =>
           /\ history.first_deliveries[Delivered.frame.id] = 0
           /\ Delivered.frame.update_rect = Delivered.frame.source.update_rect
           /\ Delivered.frame.timestamp_us = Delivered.frame.source.timestamp_us
           /\ Delivered.frame.ntp_time_ms = Delivered.frame.source.ntp_time_ms
      /\ RepeatDelivery => Delivered.frame.update_rect = "empty" ]_vars

\* A repeat of a frame whose source update rectangle was not empty.
C10_Witness ==
  /\ callback.last # << >>
  /\ Value(callback.last).from = "repeat"
  /\ Value(callback.last).frame.source.update_rect = "full"
  /\ Value(callback.last).frame.update_rect = "empty"

\* --------------------------------------------------------------------- C11
UmaReported == history'.uma_reports # history.uma_reports

\* C11 as stated: the constraint metrics are emitted at most once, and only by
\* a dispatch at which zero-hertz params are set.
C11_UmaAtMostOnce ==
  /\ [](history.uma_reports <= 1)
  /\ [][UmaReported => DispatchStep /\ HasValue(zero_hertz_params)]_vars

\* C11, amended: the metrics are emitted at most once per enabling of
\* zero-hertz params.  Only a dispatch with params set and the flag clear emits
\* them, it emits them once and sets the flag; the flag is cleared only by a
\* SetZeroHertzModeEnabled that takes the params from absent to present.
C11_UmaOncePerEnabling ==
  [][ /\ UmaReported =>
           /\ DispatchStep
           /\ history'.uma_reports = history.uma_reports + 1
           /\ HasValue(zero_hertz_params)
           /\ ~has_reported_screenshare_frame_rate_umas
      /\ DispatchStep => has_reported_screenshare_frame_rate_umas'
      /\ has_reported_screenshare_frame_rate_umas
           /\ ~has_reported_screenshare_frame_rate_umas'
           => ~HasValue(zero_hertz_params) /\ HasValue(zero_hertz_params') ]_vars

\* The metrics were emitted, the params taken away and set again, and the
\* metrics emitted a second time.
C11_Witness ==
  /\ history.uma_reports = 2
  /\ history.config_ops = 2
  /\ HasValue(zero_hertz_params)

\* --------------------------------------------------------------------- C12
\* Initialize is called on an adapter that is initialized already.
InitializeAgain == history'.reinitialized # history.reinitialized

\* C12 as stated: a second or later Initialize leaves the adapter as it was:
\* the current mode stays current and the passthrough rate window is kept.
C12_SecondInitializeRejected ==
  [][ InitializeAgain =>
        /\ current_adapter_mode' = current_adapter_mode
        /\ passthrough_adapter' = passthrough_adapter
        /\ zero_hertz_adapter' = zero_hertz_adapter
        /\ GetInputFrameRateFps' = GetInputFrameRateFps ]_vars

\* --------------------------------------------------------------------- C13
\* A layer update with a spatial index outside the trackers.
InvalidIndexCall ==
  /\ history'.layer_ops # history.layer_ops
  /\ history'.invalid_index # << >>

\* C13 as stated: a layer update with a spatial index out of range changes no
\* tracker and no other state of the mode, and corrupts nothing: it stores
\* nowhere.
C13_InvalidIndexRejected ==
  [][ InvalidIndexCall =>
        /\ zero_hertz_adapter' = zero_hertz_adapter
        /\ Value(history'.invalid_index) # "write" ]_vars

\* --------------------------------------------------------------------- C14
\* C14: frame order.  Frame tasks are dispatched into the current mode in the
\* order the frames were submitted, and the callback never sees a frame
\* submitted before the frame it saw last, across both modes, bursts, repeats
\* and mode switches.
C14_FrameOrder ==
  [][ /\ DispatchStep /\ history.last_dispatch # << >>
           => Head(queue).frame.id > Value(history.last_dispatch).frame.id
      /\ CallbackInvoked /\ callback.last # << >>
           => Delivered.frame.id >= Value(callback.last).frame.id ]_vars

\* The first frame was delivered by passthrough; after a switch to zero-hertz
\* mode the second frame was delivered and is being repeated.
C14_Witness ==
  /\ callback.last # << >>
  /\ Value(callback.last).from = "repeat"
  /\ Value(callback.last).frame.id = 2
  /\ DispatchedInPassthrough(1)

\* --------------------------------------------------------------------- C15
RateUpdateStep == history'.rate_updates # history.rate_updates
Window == Value(passthrough_adapter).input_framerate
\* The whole number n with n <= fps < n + 1, for fps in units of 1/FpsUnit.
IsFloorOf(n, fps) == n * FpsUnit <= fps /\ fps < (n + 1) * FpsUnit
\* The same zero-hertz mode before and after the step.
ModePersists ==
  /\ zero_hertz_adapter # << >>
  /\ zero_hertz_adapter' # << >>
  /\ Value(zero_hertz_adapter').safety = Value(zero_hertz_adapter).safety

RateDelegatesToCurrentMode ==
  IF current_adapter_mode = "zero_hertz"
    THEN /\ GetInputFrameRateFps # << >>
         /\ IsFloorOf(Value(GetInputFrameRateFps), Value(zero_hertz_adapter).max_fps)
    ELSE GetInputFrameRateFps = RateStatisticsRate(Window, now)

\* C15: frame rate.  UpdateFrameRate records one arrival, at the current time,
\* in the passthrough rate window whichever mode is current, and changes
\* nothing of the zero-hertz mode; nothing else touches the window.
\* GetInputFrameRateFps is the current mode's: in zero-hertz mode the whole part
\* of the max_fps the mode was activated with, which later constraints do not
\* change; in passthrough the window's estimate.
C15_FrameRate ==
  /\ []RateDelegatesToCurrentMode
  /\ [][ /\ RateUpdateStep =>
              /\ Value(passthrough_adapter').input_framerate =
                   Append(InWindow(Window, now), [count |-> 1, at |-> now])
              /\ zero_hertz_adapter' = zero_hertz_adapter
              /\ current_adapter_mode' = current_adapter_mode
         /\ ~RateUpdateStep => passthrough_adapter' = passthrough_adapter
         /\ NewActivation =>
              Value(zero_hertz_adapter').max_fps = Value(Value(source_constraints').max_fps)
         /\ ModePersists =>
              Value(zero_hertz_adapter').max_fps = Value(zero_hertz_adapter).max_fps ]_vars

\* Zero-hertz mode, activated at 6.5 fps, is current; the constraints have
\* since changed to 3 fps and two arrivals were recorded in the passthrough
\* window meanwhile: the rate is 6.
C15_Witness ==
  /\ current_adapter_mode = "zero_hertz"
  /\ history.flags = 1
  /\ history.config_ops = 1
  /\ Value(zero_hertz_adapter).max_fps = 13
  /\ Value(source_constraints).max_fps = << 6 >>
  /\ Arrivals(Window) = 2
  /\ GetInputFrameRateFps = << 6 >>

\* ------------------------------------------------------------------- C16
\* The three states of a layer tracker, in the specification's words.
Disabled == << >>
EnabledNotConverged == << FALSE >>
EnabledConverged == << TRUE >>
\* A step that is a layer update with an index inside the tracker list.
LayerStep ==
  /\ history'.layer_ops = history.layer_ops + 1
  /\ HasValue(zero_hertz_adapter)
  /\ HasValue(history'.layer_call)
  /\ IndexInRange(Value(history'.layer_call).spatial_index)
\* What the call made of tracker `before`.
TrackerAfter(call, before) ==
  IF call.op = "status"
    THEN IF call.value
           THEN IF before = Disabled THEN EnabledNotConverged ELSE before
           ELSE Disabled
    ELSE IF before = Disabled THEN Disabled ELSE << call.value >>
LayerTransition ==
  LET call == Value(history'.layer_call)
      before == Value(zero_hertz_adapter).layer_trackers
      after == Value(zero_hertz_adapter').layer_trackers
  IN /\ DOMAIN after = DOMAIN before
     /\ \A j \in DOMAIN before :
          after[j] = IF j = call.spatial_index + 1
                       THEN TrackerAfter(call, before[j])
                       ELSE before[j]
\* Disable, report converged, enable again: applied to the mode as it is.
DisableConvergeEnable(zh, i) ==
  ZhUpdateLayerStatus(
    ZhUpdateLayerQualityConvergence(ZhUpdateLayerStatus(zh, i, FALSE), i, TRUE),
    i, TRUE)
\* C16: update_layer_status(i, true) moves a Disabled layer to
\* Enabled/Not-Converged and leaves an enabled one as it is;
\* update_layer_status(i, false) disables it from any state;
\* update_layer_quality_convergence(i, c) sets the bit of an Enabled layer and
\* is ignored by a Disabled one; no other tracker changes; and (disable,
\* set-converged, enable) leaves the layer Enabled/Not-Converged.
C16_LayerTransitions ==
  [][LayerStep =>
       /\ LayerTransition
       /\ \A i \in LayerIndexes :
            DisableConvergeEnable(Value(zero_hertz_adapter), i).layer_trackers[i + 1]
              = EnabledNotConverged]_vars
\* Layer 1 enabled and reported converged, then layer 0 enabled: layer 0 is
\* Enabled/Not-Converged and layer 1 still Enabled/Converged.
C16_Witness ==
  /\ HasValue(zero_hertz_adapter)
  /\ history.layer_ops = 3
  /\ history.layer_call = << LayerCall("status", 0, TRUE) >>
  /\ history.invalid_index = << >>
  /\ Value(zero_hertz_adapter).layer_trackers
       = << EnabledNotConverged, EnabledConverged >>

\* ------------------------------------------------------------------- C17
\* The zero-hertz mode accepts a frame.
AcceptStep == DOMAIN history'.accepted_at # DOMAIN history.accepted_at
\* Every Enabled tracker is Not-Converged after the step, every Disabled one
\* still Disabled.
TrackersRefreshed ==
  Value(zero_hertz_adapter').layer_trackers =
    [i \in DOMAIN Mode.layer_trackers |->
       IF Mode.layer_trackers[i] = Disabled THEN Disabled ELSE EnabledNotConverged]
\* The first delivery of a frame, after which it starts repeating.
FirstRepeatScheduled == ProcessDelivery /\ SchedulesRepeat
SomeEnabled(trackers) == \E i \in DOMAIN trackers : trackers[i] # Disabled
UsesFrameDelay ==
  Scheduled.kind = "repeat" /\ Scheduled.scheduled_delay = Mode.frame_delay
\* C17 as stated: an accepted frame resets every Enabled layer to
\* Not-Converged and leaves Disabled layers alone, and the first repeat
\* scheduled for the frame uses frame_delay whenever a layer is enabled.
C17_FirstRepeatUsesFrameDelay ==
  [][ /\ AcceptStep => TrackersRefreshed
      /\ FirstRepeatScheduled /\ SomeEnabled(Mode.layer_trackers)
           => UsesFrameDelay ]_vars
\* C17, amended: the same, for a first repeat scheduled with no layer update
\* made since the frame was accepted; a report made in between counts for the
\* new frame.
C17_FirstRepeatAfterQuietAcceptance ==
  [][ /\ AcceptStep => TrackersRefreshed
      /\ FirstRepeatScheduled /\ SomeEnabled(Mode.layer_trackers)
           /\ history.layer_call = << >>
           => UsesFrameDelay ]_vars
\* Every layer had converged, then a frame was accepted and delivered with no
\* layer update at all: its repeat waits frame_delay, not the idle period.
C17_Witness ==
  /\ HasValue(zero_hertz_adapter)
  /\ history.layer_ops = 0
  /\ DOMAIN history.accepted_at = {1}
  /\ callback.count = 1
  /\ Mode.is_repeating
  /\ Mode.frame_delay # kZeroHertzIdleRepeatRatePeriodUs
  /\ \E i \in DOMAIN delayed :
       /\ delayed[i].kind = "repeat"
       /\ delayed[i].scheduled_delay = Mode.frame_delay
  /\ \A i \in DOMAIN Mode.layer_trackers : Mode.layer_trackers[i] = EnabledNotConverged

\* ------------------------------------------------------------------- C18
EveryEnabledConverged(trackers) ==
  \A i \in DOMAIN trackers : trackers[i] = Disabled \/ trackers[i] = EnabledConverged
\* Disabling a layer never turns the idle period into frame_delay, and a mode
\* as constructed picks the idle period.
DisabledLayersHaveNoVoice ==
  zero_hertz_adapter # << >> =>
    /\ \A i \in LayerIndexes :
         RepeatDelay(Mode) = kZeroHertzIdleRepeatRatePeriodUs
           => RepeatDelay(ZhUpdateLayerStatus(Mode, i, FALSE))
                = kZeroHertzIdleRepeatRatePeriodUs
    /\ HasValue(zero_hertz_params) =>
         RepeatDelay(ZeroHertzAdapterMode(Mode.max_fps, Value(zero_hertz_params),
                                          Mode.safety))
           = kZeroHertzIdleRepeatRatePeriodUs
\* C18: disabled layers never veto idle slow-down.  A repeat is scheduled with
\* the idle repeat period exactly when every Enabled tracker is Converged: with
\* no enabled layer, a freshly constructed mode included, always; with an
\* Enabled/Not-Converged layer it is scheduled with frame_delay.
C18_DisabledLayersNeverVeto ==
  /\ []DisabledLayersHaveNoVoice
  /\ [][ SchedulesRepeat =>
           LET trackers == Value(zero_hertz_adapter').layer_trackers
           IN /\ Scheduled.kind = "repeat"
              /\ Scheduled.scheduled_delay = kZeroHertzIdleRepeatRatePeriodUs
                   <=> EveryEnabledConverged(trackers)
              /\ ~SomeEnabled(trackers)
                   => Scheduled.scheduled_delay = kZeroHertzIdleRepeatRatePeriodUs
              /\ SomeUnconverged(trackers)
                   => /\ Scheduled.scheduled_delay = Mode.frame_delay
                      /\ Mode.frame_delay # kZeroHertzIdleRepeatRatePeriodUs ]_vars
\* Two layers, neither ever enabled and no layer update made: the frame was
\* delivered and its repeat waits the idle period.
C18_Witness ==
  /\ HasValue(zero_hertz_adapter)
  /\ history.layer_ops = 0
  /\ Mode.layer_trackers = << Disabled, Disabled >>
  /\ Mode.is_repeating
  /\ callback.count = 1
  /\ delayed # << >>
  /\ delayed[Len(delayed)].kind = "repeat"
  /\ delayed[Len(delayed)].scheduled_delay = kZeroHertzIdleRepeatRatePeriodUs

\* ------------------------------------------------------------------- C19
\* The initial-delay dispatch tasks of the live mode that have not run yet.
PendingProcessTasks ==
  { i \in DOMAIN delayed :
      delayed[i].kind = "process" /\ SafetyAlive(delayed[i].safety, zero_hertz_adapter) }
\* C19: queue invariant of the zero-hertz mode.  While repeating the queue
\* holds exactly one frame; while not repeating it holds as many frames as
\* there are pending initial-delay dispatch tasks; it is never empty once the
\* mode has accepted a frame; and no queue assertion has failed.
C19_QueueInvariant ==
  HasValue(zero_hertz_adapter) =>
    /\ Mode.is_repeating => Len(Mode.queued_frames) = 1
    /\ ~Mode.is_repeating => Len(Mode.queued_frames) = Cardinality(PendingProcessTasks)
    /\ Mode.current_frame_id > 0 => Mode.queued_frames # << >>
    /\ ~history.dcheck_failed
\* Frame 1 was delivered and repeated, then frame 2 replaced it in the queue
\* and waits for its dispatch task: all three assertions have been passed.
C19_Witness ==
  /\ HasValue(zero_hertz_adapter)
  /\ history.superseded = {1}
  /\ callback.last # << >>
  /\ Value(callback.last).from = "repeat"
  /\ ~Mode.is_repeating
  /\ Len(Mode.queued_frames) = 1
  /\ Head(Mode.queued_frames).id = 2
  /\ Cardinality(PendingProcessTasks) = 1

\* ------------------------------------------------------------------- C20
\* The repeat tasks of the live mode, among `tasks`, for frame `frame_id`.
PendingRepeats(tasks, adapter, frame_id) ==
  { i \in DOMAIN tasks :
      /\ tasks[i].kind = "repeat"
      /\ tasks[i].frame_id = frame_id
      /\ SafetyAlive(tasks[i].safety, adapter) }
\* Frame f was accepted early enough for its first delivery to fall within
\* the time the model covers.
AcceptedInTime(f) ==
  /\ HasValue(zero_hertz_adapter)
  /\ f \in DOMAIN history.accepted_at
  /\ history.accepted_at[f] + Ms(Mode.frame_delay) <= MaxTime
FirstDelivered(f) ==
  f \in DOMAIN history.first_deliveries /\ history.first_deliveries[f] = 1
\* Frame f is repeating, the number of deliveries made so far is even (or
\* odd), and its next repeat is due within the time the model covers.
Parities == {0, 1}
RepeatDue(f, parity) ==
  /\ HasValue(zero_hertz_adapter)
  /\ Mode.is_repeating
  /\ Mode.current_frame_id = f
  /\ callback.count % 2 = parity
  /\ \E i \in PendingRepeats(delayed, zero_hertz_adapter, f) :
       delayed[i].deadline <= MaxTime
\* One more delivery was made, a repeat of frame f, or a newer frame arrived.
RepeatedOrSuperseded(f, parity) ==
  \/ /\ callback.count % 2 # parity
     /\ callback.last # << >>
     /\ Value(callback.last).from = "repeat"
     /\ Value(callback.last).frame.id = f
  \/ HasValue(zero_hertz_adapter) /\ Mode.current_frame_id > f
\* Every delivery that leaves the mode repeating has scheduled exactly one
\* repeat of the current frame: the task just posted.
OneFurtherRepeat ==
  SchedulesRepeat =>
    /\ delayed' # << >>
    /\ Scheduled.kind = "repeat"
    /\ Scheduled.frame_id = Value(zero_hertz_adapter').current_frame_id
    /\ PendingRepeats(delayed', zero_hertz_adapter', Scheduled.frame_id)
         = { Len(delayed') }
\* C20: minimum cadence.  With delayed tasks fired fairly, an accepted frame
\* is delivered once, frame_delay after it was accepted, and every delivery of
\* it schedules exactly one further repeat, which is delivered in turn unless
\* a newer frame arrives: the callback keeps being invoked with that frame for
\* as long as time runs.
C20_MinimumCadence ==
  /\ [][ /\ OneFurtherRepeat
         /\ RepeatDelivery => Value(zero_hertz_adapter').is_repeating
         /\ ProcessDelivery =>
              Delivered.at = history.accepted_at[Delivered.frame.id] + Ms(Mode.frame_delay)
       ]_vars
  /\ [](\A f \in DOMAIN history.first_deliveries : history.first_deliveries[f] <= 1)
  /\ \A f \in 1 .. MaxFrames :
       AcceptedInTime(f) ~> FirstDelivered(f)
  /\ \A f \in 1 .. MaxFrames, parity \in Parities :
       RepeatDue(f, parity) ~> RepeatedOrSuperseded(f, parity)
\* One frame, delivered and then repeated twice, with its next repeat posted.
C20_Witness ==
  /\ HasValue(zero_hertz_adapter)
  /\ history.frames = 1
  /\ callback.count = 3
  /\ Value(callback.last).from = "repeat"
  /\ Value(callback.last).frame.id = 1
  /\ Mode.is_repeating
  /\ Cardinality(PendingRepeats(delayed, zero_hertz_adapter, 1)) = 1

\* ------------------------------------------------------------------- C21
\* The activation bit, before and after the step.
ActivationBit ==
  IsZeroHertzScreenshareEnabled(zero_hertz_screenshare_enabled, source_constraints,
                                zero_hertz_params)
ActivationBitAfter ==
  IsZeroHertzScreenshareEnabled(zero_hertz_screenshare_enabled', source_constraints',
                                zero_hertz_params')
\* SetZeroHertzModeEnabled is called, or the task of OnConstraintsChanged runs.
ReconfigureStep ==
  \/ history'.config_ops # history.config_ops /\ queue' = queue
  \/ queue # << >> /\ Head(queue).type = "constraints" /\ queue' = Tail(queue)
\* C21: while zero-hertz stays active, a constraints or params change that
\* leaves the activation bit set does no reconfiguration: the zero-hertz mode
\* keeps its frame_delay, queued frames, current_frame_id, is_repeating flag,
\* layer trackers and pending tasks, and stays the current mode.
C21_NoReconfiguration ==
  [][ ReconfigureStep /\ ActivationBit /\ ActivationBitAfter =>
        /\ HasValue(zero_hertz_adapter)
        /\ zero_hertz_adapter' = zero_hertz_adapter
        /\ delayed' = delayed
        /\ current_adapter_mode' = "zero_hertz"
        /\ \A i \in DOMAIN delayed :
             SafetyAlive(delayed[i].safety, zero_hertz_adapter)
               => SafetyAlive(delayed'[i].safety, zero_hertz_adapter') ]_vars
\* A mode activated at one max_fps and layer count, repeating a frame, after
\* the constraints moved to another max_fps and the params to another layer
\* count: it still has the frame_delay and trackers it was constructed with.
C21_Witness ==
  /\ HasValue(zero_hertz_adapter)
  /\ ActivationBit
  /\ history.flags = 1
  /\ history.config_ops = 2
  /\ Value(Value(source_constraints).max_fps) # Mode.max_fps
  /\ Mode.frame_delay = FrameDelayUs(Mode.max_fps)
  /\ Len(Mode.layer_trackers) # Value(zero_hertz_params).num_simulcast_layers
  /\ Mode.is_repeating
  /\ PendingRepeats(delayed, zero_hertz_adapter, Mode.current_frame_id) # {}

\* ------------------------------------------------------------------- C22
\* OnFrame calls that have done fetch_add and not yet PostTask: the frame
\* thread makes one call at a time.
FramesBeingPosted == IF incoming # << >> THEN 1 ELSE 0
\* C22 as stated: in every state the counter is the number of frame tasks
\* posted to the task queue that have not started to run, and so is never
\* negative.
C22_CounterIsPendingTasks ==
  /\ frames_scheduled_for_processing = PendingFrameTasks
  /\ frames_scheduled_for_processing >= 0
\* C22, amended: in every state the counter is the number of frame tasks
\* posted and not started plus the OnFrame call, if any, that has counted its
\* frame and not yet posted its task; it is never negative and never below
\* the number of pending frame tasks.
C22_CounterIsPendingAndPosting ==
  /\ frames_scheduled_for_processing = PendingFrameTasks + FramesBeingPosted
  /\ frames_scheduled_for_processing >= PendingFrameTasks
  /\ frames_scheduled_for_processing >= 0
\* One frame task waits on the queue while OnFrame for a second frame has
\* counted it and not posted it: the counter is 2 with one task pending.
C22_Witness ==
  /\ incoming # << >>
  /\ Value(incoming).frame.id = 2
  /\ PendingFrameTasks = 1
  /\ frames_scheduled_for_processing = 2

\* ------------------------------------------------------------------- C23
\* The repeat tasks of the live mode that have not run yet.
LiveModeRepeats ==
  { i \in DOMAIN delayed :
      delayed[i].kind = "repeat" /\ SafetyAlive(delayed[i].safety, zero_hertz_adapter) }
\* At most one pending repeat carries current_frame_id, none while the mode is
\* not repeating, and no pending repeat is of a later generation.
SingleLiveRepeat ==
  HasValue(zero_hertz_adapter) =>
    /\ Cardinality(PendingRepeats(delayed, zero_hertz_adapter, Mode.current_frame_id)) <= 1
    /\ ~Mode.is_repeating =>
         PendingRepeats(delayed, zero_hertz_adapter, Mode.current_frame_id) = {}
    /\ \A i \in LiveModeRepeats : delayed[i].frame_id <= Mode.current_frame_id
\* C23: single live repeat chain.  At most one pending repeat task has the
\* current frame_id, and none while is_repeating is false; any other pending
\* repeat is stale and does nothing when it runs; a repeat is delivered only
\* by the one task of the current generation, which leaves exactly one
\* successor, so no frame has two repeat sequences running side by side.
C23_SingleRepeatChain ==
  /\ []SingleLiveRepeat
  /\ [][ /\ StaleRepeatRuns =>
              /\ callback'.count = callback.count
              /\ delayed' = Without(delayed, NextDue)
              /\ Value(zero_hertz_adapter').is_repeating = Mode.is_repeating
         /\ RepeatDelivery =>
              /\ delayed[NextDue].kind = "repeat"
              /\ delayed[NextDue].frame_id = Mode.current_frame_id
              /\ Delivered.frame.id = FrontFrame.id
              /\ PendingRepeats(delayed, zero_hertz_adapter, Mode.current_frame_id)
                   = { NextDue }
              /\ Cardinality(PendingRepeats(delayed', zero_hertz_adapter',
                                            Mode.current_frame_id)) = 1 ]_vars
\* Frame 2 is repeating and its repeat is pending, next to the stale repeat
\* task left by frame 1.
C23_Witness ==
  /\ HasValue(zero_hertz_adapter)
  /\ Mode.is_repeating
  /\ Mode.current_frame_id = 2
  /\ Cardinality(PendingRepeats(delayed, zero_hertz_adapter, 2)) = 1
  /\ PendingRepeats(delayed, zero_hertz_adapter, 1) # {}

====
